---- MODULE Spec2Model ----
(***************************************************************************)
(* Model of the price-forecast engine of PriceForecastApp                  *)
(* (src/src/Calculate.py): the inflation resolver with its process-wide    *)
(* cache, the money parser, the compounding projector and the per-item     *)
(* loop of Calculate.main.                                                 *)
(*                                                                         *)
(* Representation.                                                         *)
(*  - A Python str is a sequence of characters, each character a           *)
(*    one-element TLA+ string; the non-ASCII characters of the source are  *)
(*    named ("euro", "nbsp", ...).                                         *)
(*  - A Python value that may be a str, an int, None or absent from a dict *)
(*    is a record [t, s, n] (see PyStr, PyInt, PyNone, Missing).           *)
(*  - A Python float x is the fixed-point integer x * SCALE (an annual     *)
(*    rate of 12 percent is 12 * SCALE, a price of 1.50 is 15000);         *)
(*    products, powers and the 12th root are computed in this arithmetic,  *)
(*    each rounded to the nearest unit, and round(x, 2) is Round2.         *)
(*  - A raised exception is a result record with its exception type.       *)
(***************************************************************************)
EXTENDS Integers, Sequences, FiniteSets, TLC

(***************************************************************************)
(* Characters and strings                                                  *)
(***************************************************************************)
UpperLetters == <<"A","B","C","D","E","F","G","H","I","J","K","L","M",
                  "N","O","P","Q","R","S","T","U","V","W","X","Y","Z">>

LowerLetters == <<"a","b","c","d","e","f","g","h","i","j","k","l","m",
                  "n","o","p","q","r","s","t","u","v","w","x","y","z">>

DigitChars == <<"0","1","2","3","4","5","6","7","8","9">>

Range(f) == { f[i] : i \in DOMAIN f }

IndexOf(f, c) == CHOOSE i \in DOMAIN f : f[i] = c

IsUpper(c) == c \in Range(UpperLetters)

IsLower(c) == c \in Range(LowerLetters)

\* [A-Za-z] of _price_pattern
IsLetter(c) == IsUpper(c) \/ IsLower(c)

\* \d of _price_pattern and 0-9 of the fallback
IsDigit(c) == c \in Range(DigitChars)

DigitVal(c) == IndexOf(DigitChars, c) - 1

\* \s of the pattern, and what str.strip() removes
IsSpace(c) == c \in {" ", "tab", "nbsp"}

\* [\$¥£€₺﷼] of _price_pattern
IsSym(c) == c \in {"$", "yen", "pound", "euro", "lira", "rial"}

\* [-+\d,.] of _price_pattern
IsNumCh(c) == IsDigit(c) \/ c \in {"-", "+", ",", "."}

LowerCh(c) == IF IsUpper(c) THEN LowerLetters[IndexOf(UpperLetters, c)] ELSE c

UpperCh(c) == IF IsLower(c) THEN UpperLetters[IndexOf(LowerLetters, c)] ELSE c

\* str.lower()
Lower(s) == [i \in 1..Len(s) |-> LowerCh(s[i])]

\* str.upper()
Upper(s) == [i \in 1..Len(s) |-> UpperCh(s[i])]

\* s with the characters of the set drop removed (str.replace(c, ''), re.sub)
RECURSIVE Without(_, _)
Without(s, drop) ==
    IF s = <<>> THEN <<>>
    ELSE IF Head(s) \in drop THEN Without(Tail(s), drop)
         ELSE <<Head(s)>> \o Without(Tail(s), drop)

RECURSIVE LStrip(_)
LStrip(s) == IF s # <<>> /\ IsSpace(Head(s)) THEN LStrip(Tail(s)) ELSE s

RECURSIVE RStrip(_)
RStrip(s) ==
    IF s # <<>> /\ IsSpace(s[Len(s)]) THEN RStrip(SubSeq(s, 1, Len(s) - 1)) ELSE s

\* str.strip()
Strip(s) == RStrip(LStrip(s))

\* Python values: a str, an int, None, or a key absent from the dict
PyStr(s) == [t |-> "str", s |-> s, n |-> 0]

PyInt(n) == [t |-> "int", s |-> <<>>, n |-> n]

PyNone == [t |-> "none", s |-> <<>>, n |-> 0]

Missing == [t |-> "missing", s |-> <<>>, n |-> 0]

\* dict.get(key, default)
Get(v, default) == IF v.t = "missing" THEN default ELSE v

\* Python truthiness of a str / int / None value
Truthy(v) ==
    \/ v.t = "str" /\ v.s # <<>>
    \/ v.t = "int" /\ v.n # 0

(***************************************************************************)
(* Floats as fixed point                                                   *)
(***************************************************************************)
\* one unit of a float is 1/SCALE
SCALE == 100 * 100

\* round(x, 2) keeps multiples of CENT
CENT == SCALE \div 100

Abs(x) == IF x < 0 THEN -x ELSE x

Sgn(x) == IF x < 0 THEN -1 ELSE 1

\* a * b for floats a, b, to the nearest unit (split so that no product
\* overflows)
FMul(a, b) ==
    Sgn(a) * Sgn(b) *
      ((Abs(a) \div SCALE) * Abs(b)
         + ((Abs(a) % SCALE) * Abs(b) + SCALE \div 2) \div SCALE)

\* f ** m for an int m >= 0 (f ** 0 is 1.0, also for f = 0.0)
RECURSIVE FPow(_, _)
FPow(f, m) == IF m = 0 THEN SCALE ELSE FMul(FPow(f, m - 1), f)

\* the least f in lo..hi with f ** 12 >= a
RECURSIVE Root12In(_, _, _)
Root12In(a, lo, hi) ==
    IF lo >= hi THEN lo
    ELSE IF FPow((lo + hi) \div 2, 12) >= a THEN Root12In(a, lo, (lo + hi) \div 2)
    ELSE Root12In(a, (lo + hi) \div 2 + 1, hi)

\* of g - 1 and g, the one whose 12th power is nearer to a
Nearer12(a, g) ==
    IF g > 0 /\ a - FPow(g - 1, 12) < FPow(g, 12) - a THEN g - 1 ELSE g

\* a ** (1 / 12.0) for a >= 0: the f whose 12th power is nearest to a
Root12(a) == Nearer12(a, Root12In(a, 0, IF a > SCALE THEN a ELSE SCALE))

\* q units and a rest of r: q, or q + 1 if the rest is above a half, or is a
\* half and q is odd
HalfEven(q, r) ==
    IF 2 * r > CENT \/ (2 * r = CENT /\ q % 2 = 1) THEN q + 1 ELSE q

\* round(x, 2): to the nearest multiple of CENT, ties to even
Round2(x) == Sgn(x) * CENT * HalfEven(Abs(x) \div CENT, Abs(x) % CENT)

(***************************************************************************)
(* Money parser: _price_pattern and _parse_price                           *)
(***************************************************************************)
\* CURRENCY_SYMBOLS.get(code, dflt)
CurrencySymbol(code, dflt) ==
    CASE code = <<"U","S","D">> -> <<"$">>
      [] code = <<"E","U","R">> -> <<"euro">>
      [] code = <<"G","B","P">> -> <<"pound">>
      [] code = <<"J","P","Y">> -> <<"yen">>
      [] code = <<"T","R","Y">> -> <<"lira">>
      [] code = <<"I","R","R">> -> <<"rial">>
      [] code = <<"S","E","K">> -> <<"k","r">>
      [] code = <<>> -> <<>>
      [] OTHER -> dflt

\* the first position >= p of s that holds no whitespace (\s*, greedy)
RECURSIVE SkipSpaces(_, _)
SkipSpaces(s, p) ==
    IF p <= Len(s) /\ IsSpace(s[p]) THEN SkipSpaces(s, p + 1) ELSE p

\* the first position >= p of s that holds no character of [-+\d,.] (greedy +)
RECURSIVE NumEnd(_, _)
NumEnd(s, p) ==
    IF p <= Len(s) /\ IsNumCh(s[p]) THEN NumEnd(s, p + 1) ELSE p

\* [A-Za-z]{3} at position p
Letters3(s, p) ==
    /\ p + 2 <= Len(s)
    /\ IsLetter(s[p]) /\ IsLetter(s[p + 1]) /\ IsLetter(s[p + 2])

\* ([A-Za-z]{3})? at position q: the group's text, empty if it does not match
Code3(s, q) == IF Letters3(s, q) THEN SubSeq(s, q, q + 2) ELSE <<>>

\* the groups of a match whose leading group is gcode1, whose symbol group
\* starts at q1 and whose numeric token is s[q2..q3-1]; no match if empty
Groups(s, gcode1, q1, q2, q3) ==
    [ok |-> q3 > q2,
     gcode1 |-> gcode1,
     gsym |-> SubSeq(s, q1, q2 - 1),
     gnum |-> SubSeq(s, q2, q3 - 1),
     gcode2 |-> Code3(s, SkipSpaces(s, q3))]

\* ([-+\d,.]+)\s*([A-Za-z]{3})? from position q2
FromNum(s, gcode1, q1, q2) == Groups(s, gcode1, q1, q2, NumEnd(s, q2))

\* ([\$¥£€₺﷼]?) and the rest from position q1
FromSym(s, gcode1, q1) ==
    FromNum(s, gcode1, q1, IF q1 <= Len(s) /\ IsSym(s[q1]) THEN q1 + 1 ELSE q1)

\* _price_pattern matched at position p, its leading group taken (lead) or
\* skipped.  Once that is decided the match is deterministic: whitespace is
\* neither a symbol nor a numeric character, a symbol is no numeric
\* character, and every part after the numeric token may match empty.
TryAt(s, p, lead) ==
    FromSym(s, IF lead THEN SubSeq(s, p, p + 2) ELSE <<>>,
            SkipSpaces(s, IF lead THEN p + 3 ELSE p))

\* the position has a match
HasMatch(s, p) ==
    \/ Letters3(s, p) /\ TryAt(s, p, TRUE).ok
    \/ TryAt(s, p, FALSE).ok

\* the match at position p: the optional leading group is tried first
MatchAt(s, p) ==
    IF Letters3(s, p) /\ TryAt(s, p, TRUE).ok THEN TryAt(s, p, TRUE)
    ELSE TryAt(s, p, FALSE)

NoMatch == [ok |-> FALSE, gcode1 |-> <<>>, gsym |-> <<>>, gnum |-> <<>>, gcode2 |-> <<>>]

\* the least position p..Len(s) that has a match, 0 if there is none
RECURSIVE FirstMatch(_, _)
FirstMatch(s, p) ==
    IF p > Len(s) THEN 0
    ELSE IF HasMatch(s, p) THEN p ELSE FirstMatch(s, p + 1)

MatchFrom(s, p) == IF p = 0 THEN NoMatch ELSE MatchAt(s, p)

\* _price_pattern.search(s): the match at the leftmost position that has one
PatternSearch(s) == MatchFrom(s, FirstMatch(s, 1))

\* the digits of s as a natural number
RECURSIVE DigitsVal(_)
DigitsVal(s) ==
    IF s = <<>> THEN 0 ELSE 10 * DigitsVal(SubSeq(s, 1, Len(s) - 1)) + DigitVal(s[Len(s)])

\* digit i of a fraction, 0 past its end
FracDigit(s, i) == IF i <= Len(s) THEN DigitVal(s[i]) ELSE 0

\* the digits of a fraction as units of 1/SCALE (digits past the 4th dropped)
FracVal(s) ==
    1000 * FracDigit(s, 1) + 100 * FracDigit(s, 2) + 10 * FracDigit(s, 3) + FracDigit(s, 4)

AllDigits(s) == \A i \in 1..Len(s) : IsDigit(s[i])

\* the position of the first "." of s, Len(s) + 1 if it has none
RECURSIVE DotPos(_, _)
DotPos(s, p) == IF p <= Len(s) /\ s[p] # "." THEN DotPos(s, p + 1) ELSE p

\* the float with the integer digits ip and the fraction digits fp
FloatParts(ip, fp, neg) ==
    IF AllDigits(ip) /\ AllDigits(fp) /\ Len(ip) + Len(fp) >= 1
    THEN [ok |-> TRUE,
          v |-> (IF neg THEN -1 ELSE 1) * (DigitsVal(ip) * SCALE + FracVal(fp))]
    ELSE [ok |-> FALSE, v |-> 0]

FloatAt(body, dot, neg) ==
    FloatParts(SubSeq(body, 1, dot - 1), SubSeq(body, dot + 1, Len(body)), neg)

\* float(s) for a str of signs, digits and dots: [ok, v]; ok = FALSE is
\* ValueError.  One optional sign, digits around at most one dot, a digit.
Float(s) ==
    IF s # <<>> /\ s[1] \in {"-", "+"}
    THEN FloatAt(Tail(s), DotPos(Tail(s), 1), s[1] = "-")
    ELSE FloatAt(s, DotPos(s, 1), FALSE)

\* (None, None, None)
ParseFailure == [ok |-> FALSE, number |-> 0, symbol |-> <<>>, code |-> <<>>]

Money(number, symbol, code) ==
    [ok |-> TRUE, number |-> number, symbol |-> symbol, code |-> code]

\* lines 134-138: the fallback, cleaned being s without the characters
\* other than digits, dot and minus
Fallback(number, default_currency) ==
    IF number.ok
    THEN Money(number.v, CurrencySymbol(default_currency, <<>>), default_currency)
    ELSE ParseFailure

\* currency_code = gcode2 or gcode1 or default_currency
CodePrecedenceSwapped(gcode1, gcode2, default_currency) ==
    IF gcode2 # <<>> THEN gcode2
    ELSE IF gcode1 # <<>> THEN gcode1 ELSE default_currency

\* currency_code = gcode1 or gcode2 or default_currency
CodePrecedence(gcode1, gcode2, default_currency) ==
    IF gcode1 # <<>> THEN gcode1
    ELSE IF gcode2 # <<>> THEN gcode2 ELSE default_currency

\* lines 144-153: number is float(num), and float(num.replace(' ', '')) is
\* float(num) again since num holds no space
Primary(number, gsym, currency_code, default_currency) ==
    IF ~number.ok THEN ParseFailure
    ELSE Money(number.v,
               CurrencySymbol(Upper(currency_code),
                  IF gsym # <<>> THEN gsym ELSE CurrencySymbol(default_currency, <<>>)),
               Upper(currency_code))

\* lines 132-153 for the match m of the pattern in s
ParseMatch(s, m, default_currency) ==
    IF ~m.ok
    THEN Fallback(Float(Without(s, Range(s) \ (Range(DigitChars) \cup {".", "-"}))),
                  default_currency)
    ELSE Primary(Float(Without(m.gnum, {","})), m.gsym,
                 CodePrecedence(m.gcode1, m.gcode2, default_currency),
                 default_currency)

\* s.replace(NBSP, ' '), NBSP being the no-break space U+00A0
NbspToSpace(s) == [i \in 1..Len(s) |-> IF s[i] = "nbsp" THEN " " ELSE s[i]]

ParseText(s, default_currency) == ParseMatch(s, PatternSearch(s), default_currency)

\* _parse_price(price_str, default_currency): price_str a Python value
\* (a str or None), default_currency a str
ParsePrice(price_str, default_currency) ==
    IF price_str.t = "none" THEN ParseFailure
    ELSE ParseText(NbspToSpace(Strip(price_str.s)), default_currency)

(***************************************************************************)
(* Compounding projector and forecast_price                                *)
(***************************************************************************)
\* an inflation lookup result (value, date): (None, None) or a rate and a year
NoRate == [none |-> TRUE, v |-> 0, date |-> "None"]

RateOf(v, date) == [none |-> FALSE, v |-> v, date |-> date]

\* x / 100.0
Div100(x) == Sgn(x) * (Abs(x) \div 100)

\* len(range(months + 1))
RangeLen(months) == IF months + 1 > 0 THEN months + 1 ELSE 0

\* the list built over range(months + 1) visited from the last month down
ProjectedPricesReversed(start_price, factor, months) ==
    [i \in 1..RangeLen(months) |->
        Round2(FMul(start_price, FPow(factor, months + 1 - i)))]

\* [round(start_price * ((1 + monthly_rate) ** m), 2) for m in range(months + 1)]
\* with factor = 1 + monthly_rate
ProjectedPrices(start_price, factor, months) ==
    [i \in 1..RangeLen(months) |-> Round2(FMul(start_price, FPow(factor, i - 1)))]

Projection(e, prices) == [exc |-> e, none |-> FALSE, prices |-> prices]

\* lines 172-174 with base = 1 + annual_inflation_pct / 100.0.  A negative
\* base raised to 1 / 12.0 is a complex number in Python 3, and round() of a
\* complex raises TypeError at the first entry of the list.
ProjectFromBase(start_price, base, months) ==
    IF base < 0
    THEN IF RangeLen(months) > 0 THEN Projection("TypeError", <<>>)
         ELSE Projection("none", <<>>)
    ELSE Projection("none",
            ProjectedPrices(start_price, SCALE + (Root12(base) - SCALE), months))

\* _project_price_over_months(start_price, annual_inflation_pct, months),
\* months an int
ProjectPriceOverMonths(start_price, annual_inflation_pct, months) ==
    IF annual_inflation_pct.none
    THEN [exc |-> "none", none |-> TRUE, prices |-> <<>>]
    ELSE ProjectFromBase(start_price, SCALE + Div100(annual_inflation_pct.v), months)

IntResult(e, n) == [exc |-> e, n |-> n]

\* int(s) for the digits body after an optional sign
IntDigits(body, neg) ==
    IF body # <<>> /\ AllDigits(body)
    THEN IntResult("none", IF neg THEN -DigitsVal(body) ELSE DigitsVal(body))
    ELSE IntResult("ValueError", 0)

\* int(s) for a str without whitespace around it
IntStr(s) ==
    IF s # <<>> /\ s[1] \in {"-", "+"} THEN IntDigits(Tail(s), s[1] = "-")
    ELSE IntDigits(s, FALSE)

\* int(v): a str holds an optional sign and digits between optional whitespace
IntOf(v) ==
    CASE v.t = "int" -> IntResult("none", v.n)
      [] v.t = "str" -> IntStr(Strip(v.s))
      [] OTHER -> IntResult("TypeError", 0)

\* except Exception: months = 0
ZeroOnError(r) == IF r.exc = "none" THEN r.n ELSE 0

\* try: months = int(months) / except Exception: months = 0
CoerceMonths(months) == ZeroOnError(IntOf(months))

\* (None, None, None) of forecast_price
NoForecast == [exc |-> "none", ok |-> FALSE, final |-> 0, prices |-> <<>>, symbol |-> <<>>]

Raised(e) == [exc |-> e, ok |-> FALSE, final |-> 0, prices |-> <<>>, symbol |-> <<>>]

\* final_price = prices[0]
FinalPriceFirst(prices) == prices[1]

\* final_price = prices[-1]
FinalPrice(prices) == prices[Len(prices)]

\* lines 201-205
ForecastOf(parsed, prj) ==
    IF prj.exc # "none" THEN Raised(prj.exc)
    ELSE IF prj.none THEN NoForecast
    ELSE IF prj.prices = <<>> THEN Raised("IndexError")
    ELSE [exc |-> "none", ok |-> TRUE,
          final |-> FinalPrice(prj.prices),
          prices |-> prj.prices,
          symbol |-> IF parsed.symbol # <<>> THEN parsed.symbol
                     ELSE CurrencySymbol(parsed.code, <<>>)]

\* lines 192-205 for the parsed price and the coerced month count
ForecastParsed(parsed, inflation_rate, months) ==
    IF ~parsed.ok THEN NoForecast
    ELSE ForecastOf(parsed, ProjectPriceOverMonths(parsed.number, inflation_rate, months))

\* forecast_price(current_price, inflation_rate, months, default_currency)
ForecastPrice(current_price, inflation_rate, months, default_currency) ==
    ForecastParsed(ParsePrice(current_price, default_currency), inflation_rate,
                   CoerceMonths(months))

(***************************************************************************)
(* Inflation resolver: get_inflation_from_worldbank                        *)
(***************************************************************************)
\* code = country_code.strip(), the case kept
CacheKeyNoLower(country_code) == Strip(country_code.s)

\* code = country_code.strip().lower()
CacheKey(country_code) == Lower(Strip(country_code.s))

\* What the data source answers to one request.  kind: "transport" (no
\* connection), "timeout", "http" (raise_for_status raises), "badjson"
\* (resp.json() raises), "notlist" (data is no list), "short" (len(data) < 2),
\* "noniter" (data[1] cannot be iterated), "series" (data[1] is the list
\* series).  An entry of the series: k = "null" (its value is None), "value"
\* (a value v and a date), "nodate" (a value but no "date" key), "notdict"
\* (no dict: entry.get raises).
Entry(k, v, date) == [k |-> k, v |-> v, date |-> date]

Response(kind, series) == [kind |-> kind, series |-> series]

\* for entry in data[1]: the first entry whose value is not None decides
RECURSIVE ScanSeries(_)
ScanSeries(series) ==
    IF series = <<>> THEN NoRate
    ELSE CASE Head(series).k = "null" -> ScanSeries(Tail(series))
           [] Head(series).k = "value" -> RateOf(Head(series).v, Head(series).date)
           [] OTHER -> NoRate

\* lines 74-104: the pair that the request's outcome stores and returns
Lookup(resp) == IF resp.kind = "series" THEN ScanSeries(resp.series) ELSE NoRate

\* _inflation_cache[code] = pair
Put(c, code, pair) ==
    [k \in DOMAIN c \cup {code} |-> IF k = code THEN pair ELSE c[k]]

\* the result of a call: the returned pair, the cache afterwards and the
\* requests issued (the codes put in the url)
Resolved(pair, c, req) == [res |-> pair, cache |-> c, req |-> req]

\* a miss that stores the pair only if the lookup found a rate
MissNoNegative(code, c, pair) ==
    Resolved(pair, IF pair.none THEN c ELSE Put(c, code, pair), <<code>>)

\* lines 74-104 on a miss: every path stores the pair it returns
Miss(code, c, pair) == Resolved(pair, Put(c, code, pair), <<code>>)

\* lines 70-104 without the test of lines 71-72
ResolveKeyNoCacheTest(code, c, resp) == Miss(code, c, Lookup(resp))

\* lines 70-104 for the key code
ResolveKey(code, c, resp) ==
    IF code \in DOMAIN c THEN Resolved(c[code], c, <<>>)
    ELSE Miss(code, c, Lookup(resp))

\* get_inflation_from_worldbank(country_code) with the cache c, resp being
\* the data source's answer if a request is made
Resolve(country_code, c, resp) ==
    IF ~Truthy(country_code) THEN Resolved(NoRate, c, <<>>)
    ELSE ResolveKey(CacheKey(country_code), c, resp)

(***************************************************************************)
(* Forecast orchestrator: the per-item loop of main                        *)
(***************************************************************************)
\* a product dict
Product(name, price, months, country, currency) ==
    [Product |-> name, CurrentPrice |-> price, ForecastMonths |-> months,
     Country |-> country, Currency |-> currency]

\* (v or "") for a str or None
OrEmpty(v) == IF Truthy(v) THEN v.s ELSE <<>>

\* country_code = (item.get("Country", "") or "").strip()
CountryCode(item) == Strip(OrEmpty(Get(item.Country, PyStr(<<>>))))

\* (s or 'USD')
OrUSD(s) == IF s # <<>> THEN s ELSE <<"U","S","D">>

\* currency = (item.get("Currency", "") or "").upper() or 'USD'
CurrencyOf(item) == OrUSD(Upper(OrEmpty(Get(item.Currency, PyStr(<<>>)))))

\* the dict appended to forecasts
ForecastRecord(item, inflation, forecasted_price, price_series) ==
    [Product |-> item.Product,
     CurrentPrice |-> Get(item.CurrentPrice, PyStr(<<"N","/","A">>)),
     ForecastMonths |-> Get(item.ForecastMonths, PyStr(<<"0">>)),
     Country |-> CountryCode(item),
     Currency |-> CurrencyOf(item),
     Inflation |-> inflation,
     ForecastedPrice |-> forecasted_price,
     PriceSeries |-> price_series]

\* the values of "Forecasted Price": the two sentinels, or a price shown
\* with its symbol in front or with the currency code behind
Sentinel(text) == [text |-> text, symbol |-> <<>>, final |-> 0, code |-> <<>>]

Shown(symbol, final, currency) ==
    [text |-> "price", symbol |-> symbol, final |-> final,
     code |-> IF symbol # <<>> THEN <<>> ELSE currency]

\* "Price Series": None or a list
NoSeries == [none |-> TRUE, prices |-> <<>>]

Series(prices) == [none |-> FALSE, prices |-> prices]

\* what one pass of the loop does: the cache afterwards, the requests
\* issued, the exception that escapes ("none" if none does) and the records
\* appended to forecasts
Pass(r, e, recs) == [cache |-> r.cache, req |-> r.req, exc |-> e, recs |-> recs]

\* lines 248-266 for the result pr of forecast_price
AfterForecast(item, r, pr) ==
    IF pr.exc # "none" THEN Pass(r, pr.exc, <<>>)
    ELSE IF ~pr.ok
    THEN Pass(r, "none", <<ForecastRecord(item, r.res,
                              Sentinel("Invalid price format"), NoSeries)>>)
    ELSE Pass(r, "none", <<ForecastRecord(item, r.res,
                              Shown(pr.symbol, pr.final, CurrencyOf(item)),
                              Series(pr.prices))>>)

\* line 247 for months = int(item.get("Forecast Months", 0))
AfterInt(item, r, months) ==
    IF months.exc # "none" THEN Pass(r, months.exc, <<>>)
    ELSE AfterForecast(item, r,
            ForecastPrice(Get(item.CurrentPrice, PyStr(<<"0">>)), r.res,
                          PyInt(months.n), CurrencyOf(item)))

\* lines 233-266 that leave out the record of a product without inflation data
AfterResolveSkipping(item, r) ==
    IF r.res.none THEN Pass(r, "none", <<>>)
    ELSE AfterInt(item, r, IntOf(Get(item.ForecastMonths, PyInt(0))))

\* lines 233-266 with the price looked at before the rate
AfterResolvePriceFirst(item, r) ==
    IF ~ParsePrice(Get(item.CurrentPrice, PyStr(<<"0">>)), CurrencyOf(item)).ok
    THEN Pass(r, "none", <<ForecastRecord(item, r.res,
                              Sentinel("Invalid price format"), NoSeries)>>)
    ELSE IF r.res.none
    THEN Pass(r, "none", <<ForecastRecord(item, NoRate,
                              Sentinel("Inflation data not found"), NoSeries)>>)
    ELSE AfterInt(item, r, IntOf(Get(item.ForecastMonths, PyInt(0))))

\* lines 233-266 for the result r of get_inflation_from_worldbank
AfterResolve(item, r) ==
    IF r.res.none
    THEN Pass(r, "none", <<ForecastRecord(item, NoRate,
                              Sentinel("Inflation data not found"), NoSeries)>>)
    ELSE AfterInt(item, r, IntOf(Get(item.ForecastMonths, PyInt(0))))

\* lines 229-266, one pass of the loop over item with the cache c
LoopBody(item, c, resp) ==
    AfterResolve(item, Resolve(PyStr(CountryCode(item)), c, resp))

(***************************************************************************)
(* ReadExcel.read_excel_to_json_gui                                        *)
(***************************************************************************)
\* rows in a worksheet below its header row
MaxRows == 2

\* a cell that holds a date: json.dump cannot serialize it
PyDate == [t |-> "date", s |-> <<>>, n |-> 0]

\* The file at file_path: absent, no workbook (load_workbook raises), or a
\* workbook whose sheet has the columns Product, Current Price, Country and
\* Currency, the column Forecast Months if months_col, and the rows below
\* the header.
ExcelFile(exists, valid, months_col, rows) ==
    [exists |-> exists, valid |-> valid, months_col |-> months_col, rows |-> rows]

NoFile == ExcelFile(FALSE, FALSE, TRUE, <<>>)

\* data.json: "absent", "complete" (rows dumped and the file closed) or
\* "partial" (opened for writing, the dump or the close failed)
JsonFile(state, rows) == [state |-> state, rows |-> rows]

\* product = dict(zip(headers, row))
ZipHeaders(f, row) ==
    IF f.months_col THEN row ELSE [row EXCEPT !.ForecastMonths = Missing]

\* lines 56-62
Normalized(product) ==
    [Product |-> Get(product.Product, PyStr(<<>>)),
     CurrentPrice |-> Get(product.CurrentPrice, PyStr(<<>>)),
     ForecastMonths |-> Get(product.ForecastMonths, PyStr(<<"0">>)),
     Country |-> Get(product.Country, PyStr(<<>>)),
     Currency |-> Get(product.Currency, PyStr(<<>>))]

\* lines 45-65: data
SheetData(f) == [i \in 1..Len(f.rows) |-> Normalized(ZipHeaders(f, f.rows[i]))]

\* json can encode the dict
Serializable(d) ==
    /\ d.Product.t # "date" /\ d.CurrentPrice.t # "date"
    /\ d.ForecastMonths.t # "date" /\ d.Country.t # "date" /\ d.Currency.t # "date"

RECURSIVE FirstBad(_, _)
\* the first entry from i on that json cannot encode, Len(data) + 1 if none
FirstBad(data, i) ==
    IF i <= Len(data) /\ Serializable(data[i]) THEN FirstBad(data, i + 1) ELSE i

\* lines 68-69 with the file system's outcome: "open" (open raises, data.json
\* is untouched), "disk" (the file is truncated and a write or the close
\* raises) or "ok".  json.dump writes entry after entry and raises TypeError
\* at the first one it cannot encode.
Dumped(data, outcome, old) ==
    IF outcome = "open" THEN [json |-> old, exc |-> TRUE]
    ELSE IF FirstBad(data, 1) <= Len(data)
    THEN [json |-> JsonFile("partial", SubSeq(data, 1, FirstBad(data, 1) - 1)), exc |-> TRUE]
    ELSE IF outcome = "disk" THEN [json |-> JsonFile("partial", <<>>), exc |-> TRUE]
    ELSE [json |-> JsonFile("complete", data), exc |-> FALSE]

\* the call: its position, its arguments (the file found at file_path and
\* delete_excel), data, the success it returns and the step that raised
RxState(p, f, delete_excel, data, ok, failed) ==
    [pc |-> p, file |-> f, delete_excel |-> delete_excel, data |-> data,
     ok |-> ok, failed |-> failed]

RxIdle == RxState("idle", NoFile, FALSE, <<>>, "none", "none")

\* except Exception as e: return False, ...
RxFailed(r, step) == [r EXCEPT !.pc = "return", !.ok = "False", !.failed = step]

\* lines 41-65
AfterLoad(r, f) ==
    IF f.exists /\ f.valid THEN [r EXCEPT !.pc = "write", !.data = SheetData(f)]
    ELSE RxFailed(r, "load")

\* lines 68-72 that go on to line 72 whether the with block raised or not
AfterWriteIgnoringError(r, raised) == [r EXCEPT !.pc = "remove"]

\* lines 68-72: an exception in the with block leaves the try
AfterWrite(r, raised) ==
    IF raised THEN RxFailed(r, "write") ELSE [r EXCEPT !.pc = "remove"]

\* lines 72-75: os.remove(file_path) succeeds (removed) or raises
AfterRemove(r, removed) ==
    IF r.delete_excel /\ ~removed THEN RxFailed(r, "remove")
    ELSE [r EXCEPT !.pc = "return", !.ok = "True"]

(***************************************************************************)
(* CreateExcel.save_to_excel                                               *)
(***************************************************************************)
\* A file save_to_excel writes (the workbook or its JSON backup): "absent",
\* "complete" (these rows or dicts, the file closed) or "partial" (the
\* write began and raised).
SavedFile(state, rows) == [state |-> state, rows |-> rows]

\* lines 42-48: the row of a product
SheetRow(product) ==
    [Product |-> Get(product.Product, PyStr(<<>>)),
     CurrentPrice |-> Get(product.CurrentPrice, PyStr(<<>>)),
     ForecastMonths |-> Get(product.ForecastMonths, PyStr(<<>>)),
     Country |-> Get(product.Country, PyStr(<<>>)),
     Currency |-> Get(product.Currency, PyStr(<<>>))]

\* lines 41-48: the rows below the header
SheetOf(product_list) == [i \in 1..Len(product_list) |-> SheetRow(product_list[i])]

\* line 51 with the file system's outcome: "ok", "denied" (the file cannot
\* be opened, it stays as it is) or "disk" (the write begins and raises)
Saved(product_list, outcome, old) ==
    IF outcome = "ok" THEN SavedFile("complete", SheetOf(product_list))
    ELSE IF outcome = "disk" THEN SavedFile("partial", <<>>)
    ELSE old

\* lines 54-56 with the file system's outcome; a value of a product without
\* a key is absent from its dict, and json.dump raises TypeError at the
\* first dict that holds a date
BackedUp(product_list, outcome, old) ==
    IF outcome = "denied" THEN old
    ELSE IF FirstBad(SheetOf(product_list), 1) <= Len(product_list)
    THEN SavedFile("partial", SubSeq(product_list, 1, FirstBad(SheetOf(product_list), 1) - 1))
    ELSE IF outcome = "disk" THEN SavedFile("partial", <<>>)
    ELSE SavedFile("complete", product_list)

\* the call: its position, product_list, the file found at file_path, the
\* success it returns and the step that raised
SxState(p, product_list, before, ok, failed) ==
    [pc |-> p, product_list |-> product_list, before |-> before, ok |-> ok,
     failed |-> failed]

SxIdle == SxState("idle", <<>>, SavedFile("absent", <<>>), "none", "none")

\* except Exception as e: return False, ...
SxFailed(s, step) == [s EXCEPT !.pc = "return", !.ok = "False", !.failed = step]

\* line 51 raised or not
AfterSave(s, outcome) ==
    IF outcome = "ok" THEN [s EXCEPT !.pc = "backup"] ELSE SxFailed(s, "save")

\* lines 54-56 raise
BackupRaises(product_list, outcome) ==
    outcome # "ok" \/ FirstBad(SheetOf(product_list), 1) <= Len(product_list)

\* lines 54-61: the backup raised or not
AfterBackup(s, raised) ==
    IF raised THEN SxFailed(s, "backup") ELSE [s EXCEPT !.pc = "return", !.ok = "True"]

(***************************************************************************)
(* main.py: the table, product_list and the popups                         *)
(***************************************************************************)
\* item ids the Treeview makes, and dicts made, in one run
MaxItems == 3

\* what the user has typed into the five entries of a popup
Entries(name, price, months, country, currency) ==
    [name |-> name, price |-> price, months |-> months, country |-> country,
     currency |-> currency]

\* (s or '0')
OrZero(s) == IF s # <<>> THEN s ELSE <<"0">>

\* the fields confirm and save take from the entries: main.py lines 192-198
\* and 239-243
FromEntries(e) ==
    Product(PyStr(Strip(e.name)), PyStr(Strip(e.price)), PyStr(OrZero(Strip(e.months))),
            PyStr(Strip(e.country)), PyStr(OrUSD(Upper(Strip(e.currency)))))

\* the values of the row of the dict p: (p.get('Product', ''), ...)
RowValues(p) ==
    [Product |-> Get(p.Product, PyStr(<<>>)),
     CurrentPrice |-> Get(p.CurrentPrice, PyStr(<<>>)),
     ForecastMonths |-> Get(p.ForecastMonths, PyStr(<<>>)),
     Country |-> Get(p.Country, PyStr(<<>>)),
     Currency |-> Get(p.Currency, PyStr(<<>>))]

\* the dicts the references of list point to
Contents(list, h) == [i \in 1..Len(list) |-> h[list[i]]]

\* del list[0]
DelFirst(list, idx) == Tail(list)

\* del list[idx], idx counted from 1
DelAt(list, idx) == SubSeq(list, 1, idx - 1) \o SubSeq(list, idx + 1, Len(list))


\* self.table.delete(iid) and self.table.insert('', 'end', values) on shown
Unshown(sh, iid) == [k \in DOMAIN sh \ {iid} |-> sh[k]]

Inserted(sh, iid, values) ==
    [k \in DOMAIN sh \cup {iid} |-> IF k = iid THEN values ELSE sh[k]]

\* the rows inserted for the dicts data, their item ids following serial n
InsertedAll(data, n) == [k \in (n + 1)..(n + Len(data)) |-> RowValues(data[k - n])]

\* an edit popup: the item id and the dict its save callback holds
Popup(iid, data) == [iid |-> iid, data |-> data]

(***************************************************************************)
(* Bounds and input sets                                                   *)
(***************************************************************************)
\* products in one call of main
MaxBatch == 2

\* direct calls of get_inflation_from_worldbank in succession
MaxCalls == 2

\* largest month count given to the projector
MaxMonths == 12

USD == <<"U","S","D">>

EUR == <<"E","U","R">>

Pct(r) == r * SCALE

\* the answers of the data source
Responses ==
    { Response(k, <<>>) :
        k \in {"transport", "timeout", "http", "badjson", "notlist", "short", "noniter"} }
    \cup
    { Response("series", s) : s \in {
        <<>>,
        <<Entry("null", 0, "2024")>>,
        <<Entry("notdict", 0, "None")>>,
        <<Entry("null", 0, "2024"), Entry("nodate", Pct(12), "None")>>,
        <<Entry("value", Pct(12), "2023")>>,
        <<Entry("null", 0, "2024"), Entry("value", Pct(12), "2023")>>,
        <<Entry("value", Pct(12), "2023"), Entry("value", Pct(-150), "2022")>>,
        <<Entry("value", Pct(12), "2023"), Entry("notdict", 0, "None")>>,
        <<Entry("value", Pct(-150), "2023")>> } }

\* the country codes of direct calls
CallCodes ==
    { PyStr(<<"U","S">>), PyStr(<<"u","s">>), PyStr(<<" ","U","s"," ">>),
      PyStr(<<"Z","Z">>), PyStr(<<>>), PyStr(<<" "," ">>), PyNone }

\* the products a list given to main is made of
Products ==
    { Product("A", PyStr(<<"$","1","0","0">>), PyStr(<<"2">>),
              PyStr(<<"U","S">>), PyStr(<<"u","s","d">>)),
      Product("B", PyStr(<<"5",".","0","0","5"," ","E","U","R">>), PyInt(1),
              PyStr(<<"Z","Z">>), Missing),
      Product("C", PyStr(<<"g","a","r","b","a","g","e">>), PyStr(<<"1">>),
              PyStr(<<" ","u","s"," ">>), PyStr(EUR)),
      Product("D", PyStr(<<"1","0","0">>), PyStr(<<"a","b","c">>),
              PyStr(<<"U","S">>), PyStr(<<>>)),
      Product("E", PyStr(<<"1",".","5">>), PyInt(-1),
              PyStr(<<"z","z">>), PyStr(USD)),
      Product("F", PyNone, PyNone, PyNone, PyNone),
      Product("G", Missing, Missing, PyStr(<<"U","S">>), PyStr(<<"x","y","z">>)),
      Product("H", PyStr(<<"7">>), PyStr(<<>>), PyStr(<<"Z","Z">>), PyStr(USD)),
      Product("I", PyStr(<<"7">>), PyNone, PyStr(<<"U","S">>), Missing),
      Product("J", PyStr(<<"7">>), PyStr(<<"1","2",".","5">>), PyStr(<<"U","S">>), Missing),
      Product("K", PyStr(<<"1","0","0"," ","A","B","C">>), PyStr(<<"1">>),
              PyStr(<<"u","s">>), PyStr(<<"x","y","z">>)) }

ProductLists == UNION { [1..n -> Products] : n \in 0..MaxBatch }

(***************************************************************************)
(* State                                                                   *)
(***************************************************************************)
VARIABLES
    cache,      \* _inflation_cache: cache key -> (value, date)
    requests,   \* cache key -> number of requests sent to the data source for it
    calls,      \* the direct calls of get_inflation_from_worldbank made in succession
    pc,         \* main: "idle", "loop", "done" (the loop has ended), "raised"
    items,      \* main: items
    idx,        \* main: the position of the loop in items
    forecasts,  \* main: forecasts
    exc,        \* main: the exception that left the loop
    call,       \* a call of a pure function: its name and arguments
    ret         \* its result

VARIABLES
    excel,      \* ReadExcel: the file at file_path
    dataJson,   \* ReadExcel: the file data.json
    rx          \* ReadExcel: the call of read_excel_to_json_gui and its position

VARIABLES
    xlsx,       \* CreateExcel: the file at file_path
    backup,     \* CreateExcel: the file <file_path without extension>_backup.json
    sx          \* CreateExcel: the call of save_to_excel and its position

VARIABLES
    self_product_list,   \* main.py: self.product_list, a list of references to dicts
    heap,           \* main.py: the dicts ever made, a reference being an index
    table,          \* main.py: the item ids of self.table's rows, in order
    shown,          \* main.py: item id -> the values of the row
    serial,         \* main.py: the number of item ids the Treeview has made
    popups,         \* main.py: the edit popups that are open: (iid, data)
    appState        \* main.py: the products in app_state.json

\* the state of Calculate.py
engine == <<cache, requests, calls, pc, items, idx, forecasts, exc, call, ret>>

\* the state of ReadExcel.py
reader == <<excel, dataJson, rx>>

\* the state of CreateExcel.py
saver == <<xlsx, backup, sx>>

\* the state of main.py
gui == <<self_product_list, heap, table, shown, serial, popups, appState>>

\* the state outside of Calculate.py
others == <<reader, saver, gui>>

vars == <<cache, requests, calls, pc, items, idx, forecasts, exc, call, ret, others>>

EmptyMap == [k \in {} |-> 0]

NoCall == [fn |-> "none"]

Count(req, r) ==
    [k \in DOMAIN r \cup Range(req) |->
        (IF k \in DOMAIN r THEN r[k] ELSE 0) + (IF k \in Range(req) THEN 1 ELSE 0)]

Init ==
    /\ cache = EmptyMap
    /\ requests = EmptyMap
    /\ calls = <<>>
    /\ pc = "idle"
    /\ items = <<>>
    /\ idx = 0
    /\ forecasts = <<>>
    /\ exc = "none"
    /\ call = NoCall
    /\ ret = NoCall
    /\ excel = NoFile
    /\ dataJson = JsonFile("absent", <<>>)
    /\ rx = RxIdle
    /\ xlsx = SavedFile("absent", <<>>)
    /\ backup = SavedFile("absent", <<>>)
    /\ sx = SxIdle
    /\ self_product_list = <<>>
    /\ heap = <<>>
    /\ table = <<>>
    /\ shown = EmptyMap
    /\ serial = 0
    /\ popups = {}
    /\ appState = <<>>

\* the record of a direct call and of the answer it was given, if it asked
CallRecord(cc, resp, r, c) ==
    [cc |-> cc, res |-> r.res, req |-> Len(r.req),
     hit |-> cc.t = "str" /\ CacheKey(cc) \in DOMAIN c,
     wrote |-> r.cache # c,
     resp |-> IF r.req # <<>> THEN resp ELSE Response("none", <<>>)]

Called(cc, resp, r) ==
    /\ cache' = r.cache
    /\ requests' = Count(r.req, requests)
    /\ calls' = Append(calls, CallRecord(cc, resp, r, cache))

\* a direct call get_inflation_from_worldbank(cc), outside of main
ResolveCall(cc, resp) ==
    /\ pc = "idle"
    /\ Len(calls) < MaxCalls
    /\ Called(cc, resp, Resolve(cc, cache, resp))
    /\ UNCHANGED <<others, pc, items, idx, forecasts, exc, call, ret>>

\* main(product_list) is called: lines 225-226
MainStart(product_list) ==
    /\ pc = "idle"
    /\ pc' = "loop"
    /\ items' = product_list
    /\ idx' = 1
    /\ forecasts' = <<>>
    /\ calls' = <<>>
    /\ UNCHANGED <<others, cache, requests, exc, call, ret>>

\* the effect of one pass b of the loop
Passed(b) ==
    /\ cache' = b.cache
    /\ requests' = Count(b.req, requests)
    /\ forecasts' = forecasts \o b.recs
    /\ idx' = IF b.exc = "none" THEN idx + 1 ELSE idx
    /\ pc' = IF b.exc = "none" THEN "loop" ELSE "raised"
    /\ exc' = b.exc

\* one pass of the loop of lines 228-266
MainStep(resp) ==
    /\ pc = "loop"
    /\ idx <= Len(items)
    /\ Passed(LoopBody(items[idx], cache, resp))
    /\ UNCHANGED <<others, calls, items, call, ret>>

\* the loop has visited every item
MainLoopEnd ==
    /\ pc = "loop"
    /\ idx > Len(items)
    /\ pc' = "done"
    /\ UNCHANGED <<others, cache, requests, calls, items, idx, forecasts, exc, call, ret>>

\* main returns, or its exception reaches the caller: its locals are gone
MainReturn ==
    /\ pc \in {"done", "raised"}
    /\ pc' = "idle"
    /\ items' = <<>>
    /\ idx' = 0
    /\ forecasts' = <<>>
    /\ exc' = "none"
    /\ UNCHANGED <<others, cache, requests, calls, call, ret>>

Next ==
    \/ \E product_list \in ProductLists : MainStart(product_list)
    \/ \E resp \in Responses : MainStep(resp)
    \/ MainLoopEnd
    \/ MainReturn

Spec == Init /\ [][Next]_vars

\* get_inflation_from_worldbank called directly, call after call
NextResolver == \E cc \in CallCodes, resp \in Responses : ResolveCall(cc, resp)

SpecResolver == Init /\ [][NextResolver]_vars

(***************************************************************************)
(* The pure functions called directly (specification SpecPure)             *)
(***************************************************************************)
GBP == <<"G","B","P">>

\* numerals and the floats they denote, in units of 1/SCALE
Numerals ==
    { [text |-> <<"1","0","0">>, val |-> 100 * SCALE],
      [text |-> <<"1",",","2","3","4",".","5","6">>, val |-> 1234 * SCALE + 56 * CENT],
      [text |-> <<"-","5">>, val |-> -5 * SCALE],
      [text |-> <<"0",".","5">>, val |-> 50 * CENT],
      [text |-> <<"7",".","0","0","6">>, val |-> 7 * SCALE + 60] }

\* a price text: an optional leading code, an optional symbol, a numeral and
\* an optional trailing code, with optional whitespace between them
PriceForms ==
    [lead : {<<>>, USD, <<"e","u","r">>},
     sep1 : {<<>>, <<" ">>},
     sym : {<<>>, <<"$">>, <<"pound">>},
     num : Numerals,
     sep2 : {<<>>, <<" ">>},
     trail : {<<>>, <<"J","P","Y">>, <<"t","r","y">>}]

TextOf(f) == f.lead \o f.sep1 \o f.sym \o f.num.text \o f.sep2 \o f.trail

\* price texts that are no price, and None
NoPrices ==
    { PyStr(<<"g","a","r","b","a","g","e">>), PyStr(<<"-"," ","U","S","D">>),
      PyStr(<<"1",".","2",".","3">>), PyStr(<<>>), PyNone }

\* price texts with a numeral between other characters
OddPrices ==
    { PyStr(<<"-"," ","1","0","0"," ","U","S","D">>),
      PyStr(<<"a","b","c","-","5","a","b","c">>) }

\* the prices given to _parse_price
ParsePrices == { PyStr(TextOf(f)) : f \in PriceForms } \cup NoPrices \cup OddPrices

\* starting amounts and annual rates given to the projector
Starts == {0, CENT, SCALE, 100 * SCALE, 7 * SCALE + 60, -5 * SCALE}

Rates ==
    { NoRate, RateOf(0, "2023"), RateOf(Pct(1), "2023"), RateOf(Pct(12), "2023"),
      RateOf(Pct(100), "2023"), RateOf(Pct(-50), "2023"), RateOf(Pct(-100), "2023"),
      RateOf(Pct(-150), "2023") }

\* month counts given to forecast_price: ints, and values that are no int
MonthArgs ==
    { PyInt(m) : m \in -1..MaxMonths }
    \cup { PyStr(<<" ","6"," ">>), PyStr(<<"a","b","c">>), PyStr(<<>>),
           PyStr(<<"1","2",".","5">>), PyNone }

\* the prices given to forecast_price: the forms without codes, and no prices
ForecastPrices ==
    { PyStr(TextOf(f)) :
        f \in { g \in PriceForms : g.lead = <<>> /\ g.trail = <<>> /\ g.sep1 = <<>>
                                    /\ g.sep2 = <<>> /\ g.sym # <<"pound">> } }
    \cup { PyStr(<<"g","a","r","b","a","g","e">>), PyNone }

\* The functions are pure: a call depends on nothing an earlier call did, so
\* a behaviour holds one call.
Returned(c, r) ==
    /\ call.fn = "none"
    /\ call' = c
    /\ ret' = r
    /\ UNCHANGED <<others, cache, requests, calls, pc, items, idx, forecasts, exc>>

\* _parse_price(price_str, default_currency)
CallParsePrice(price_str, default_currency) ==
    /\ pc = "idle"
    /\ Returned([fn |-> "_parse_price", price_str |-> price_str,
                 default_currency |-> default_currency],
                ParsePrice(price_str, default_currency))

\* _project_price_over_months(start_price, annual_inflation_pct, months)
CallProject(start_price, annual_inflation_pct, months) ==
    /\ pc = "idle"
    /\ Returned([fn |-> "_project_price_over_months", start_price |-> start_price,
                 annual_inflation_pct |-> annual_inflation_pct, months |-> months],
                ProjectPriceOverMonths(start_price, annual_inflation_pct, months))

\* forecast_price(current_price, inflation_rate, months, default_currency)
CallForecastPrice(current_price, inflation_rate, months, default_currency) ==
    /\ pc = "idle"
    /\ Returned([fn |-> "forecast_price", current_price |-> current_price,
                 inflation_rate |-> inflation_rate, months |-> months,
                 default_currency |-> default_currency],
                ForecastPrice(current_price, inflation_rate, months, default_currency))

NextPure ==
    \/ \E s \in ParsePrices, d \in {USD, GBP} : CallParsePrice(s, d)
    \/ \E s \in Starts, r \in Rates, m \in -1..MaxMonths : CallProject(s, r, m)
    \/ \E s \in ForecastPrices, r \in Rates, m \in MonthArgs :
          CallForecastPrice(s, r, m, USD)

SpecPure == Init /\ [][NextPure]_vars

(***************************************************************************)
(* read_excel_to_json_gui, step by step (specification SpecReader)         *)
(***************************************************************************)
\* the rows of a sheet below its header
SheetRows ==
    { Product(PyStr(<<"A">>), PyStr(<<"$","1","0","0">>), PyInt(2), PyStr(<<"U","S">>), PyStr(USD)),
      Product(PyStr(<<"B">>), PyNone, PyNone, PyNone, PyNone),
      Product(PyStr(<<"C">>), PyInt(7), PyDate, PyStr(<<"I","R">>), PyNone) }

Sheets == UNION { [1..n -> SheetRows] : n \in 0..MaxRows }

\* what may be found at file_path
ExcelFiles ==
    { NoFile, ExcelFile(TRUE, FALSE, TRUE, <<>>) }
    \cup { ExcelFile(TRUE, TRUE, c, rows) : c \in BOOLEAN, rows \in Sheets }

\* read_excel_to_json_gui(file_path, delete_excel) is called, f being the
\* file at file_path
ReadCall(f, delete_excel) ==
    /\ rx.pc = "idle"
    /\ excel' = f
    /\ rx' = RxState("load", f, delete_excel, <<>>, "none", "none")
    /\ UNCHANGED <<engine, saver, gui, dataJson>>

\* lines 41-65
ReadLoad ==
    /\ rx.pc = "load"
    /\ rx' = AfterLoad(rx, excel)
    /\ UNCHANGED <<engine, saver, gui, excel, dataJson>>

\* lines 68-69
ReadWrite(outcome) ==
    /\ rx.pc = "write"
    /\ dataJson' = Dumped(rx.data, outcome, dataJson).json
    /\ rx' = AfterWrite(rx, Dumped(rx.data, outcome, dataJson).exc)
    /\ UNCHANGED <<engine, saver, gui, excel>>

\* lines 72-75
ReadRemove(removed) ==
    /\ rx.pc = "remove"
    /\ excel' = IF rx.delete_excel /\ removed THEN NoFile ELSE excel
    /\ rx' = AfterRemove(rx, removed)
    /\ UNCHANGED <<engine, saver, gui, dataJson>>

\* the caller has the result
ReadReturn ==
    /\ rx.pc = "return"
    /\ rx' = RxIdle
    /\ UNCHANGED <<engine, saver, gui, excel, dataJson>>

NextReader ==
    \/ \E f \in ExcelFiles, delete_excel \in BOOLEAN : ReadCall(f, delete_excel)
    \/ ReadLoad
    \/ \E outcome \in {"ok", "open", "disk"} : ReadWrite(outcome)
    \/ \E removed \in BOOLEAN : ReadRemove(removed)
    \/ ReadReturn

SpecReader == Init /\ [][NextReader]_vars

(***************************************************************************)
(* save_to_excel, step by step (specification SpecSaver)                   *)
(***************************************************************************)
\* the products of the lists given to save_to_excel
SavedProducts ==
    { Product(PyStr(<<"A">>), PyStr(<<"$","1","0","0">>), PyStr(<<"2">>),
              PyStr(<<"U","S">>), PyStr(USD)),
      Product(PyStr(<<"B">>), PyStr(<<"7">>), Missing, PyStr(<<"I","R">>), PyStr(<<>>)),
      Product(PyStr(<<"C">>), PyInt(7), PyDate, PyNone, PyStr(EUR)) }

SavedLists == UNION { [1..n -> SavedProducts] : n \in 0..MaxBatch }

\* save_to_excel(product_list, file_path) is called: lines 32-48
SaveCall(product_list) ==
    /\ sx.pc = "idle"
    /\ sx' = SxState("save", product_list, xlsx, "none", "none")
    /\ UNCHANGED <<engine, reader, gui, xlsx, backup>>

\* line 51
SaveWorkbook(outcome) ==
    /\ sx.pc = "save"
    /\ xlsx' = Saved(sx.product_list, outcome, xlsx)
    /\ sx' = AfterSave(sx, outcome)
    /\ UNCHANGED <<engine, reader, gui, backup>>

\* lines 54-58
SaveBackup(outcome) ==
    /\ sx.pc = "backup"
    /\ backup' = BackedUp(sx.product_list, outcome, backup)
    /\ sx' = AfterBackup(sx, BackupRaises(sx.product_list, outcome))
    /\ UNCHANGED <<engine, reader, gui, xlsx>>

\* the caller has the result
SaveReturn ==
    /\ sx.pc = "return"
    /\ sx' = SxIdle
    /\ UNCHANGED <<engine, reader, gui, xlsx, backup>>

NextSaver ==
    \/ \E product_list \in SavedLists : SaveCall(product_list)
    \/ \E outcome \in {"ok", "denied", "disk"} : SaveWorkbook(outcome)
    \/ \E outcome \in {"ok", "denied", "disk"} : SaveBackup(outcome)
    \/ SaveReturn

SpecSaver == Init /\ [][NextSaver]_vars

(***************************************************************************)
(* Properties of the per-item loop (specification Spec)                    *)
(***************************************************************************)
\* the cache key main's lookup for item uses
KeyOf(item) == CacheKey(PyStr(CountryCode(item)))

\* the lookup for item has found a rate
RateKnown(item) ==
    /\ CountryCode(item) # <<>>
    /\ KeyOf(item) \in DOMAIN cache
    /\ ~cache[KeyOf(item)].none

\* the items the loop has visited: those before idx, and the one at idx if
\* its pass raised
Visited(i) == i < idx \/ (i = idx /\ pc = "raised")

\* C1: no exception escapes the per-item loop of main, whatever the fields
\* of a product are: every visited product ends as a record, and the loop
\* goes on to the remaining products.
C1_NoExceptionEscapes ==
    /\ pc # "raised"
    /\ \A i \in 1..Len(items) : Visited(i) => i <= Len(forecasts)

\* the record is the one of the product: it echoes its fields, and it says
\* "Inflation data not found" exactly if the lookup for its country found
\* no rate
RecordOf(rec, item) ==
    /\ rec.Product = item.Product
    /\ rec.CurrentPrice = Get(item.CurrentPrice, PyStr(<<"N","/","A">>))
    /\ rec.ForecastMonths = Get(item.ForecastMonths, PyStr(<<"0">>))
    /\ rec.Country = CountryCode(item)
    /\ rec.ForecastedPrice.text = "Inflation data not found" <=> ~RateKnown(item)
    /\ rec.Inflation = IF RateKnown(item) THEN cache[KeyOf(item)] ELSE NoRate

C6_KeysLowerWrittenOnce ==
    /\ [](\A k \in DOMAIN cache :
            /\ k = Lower(k)
            /\ \E p \in Products : k = Lower(CountryCode(p))
            /\ k \in DOMAIN requests /\ requests[k] = 1)
    /\ [][\A k \in DOMAIN cache : k \in DOMAIN cache' /\ cache'[k] = cache[k]]_vars

\* two products whose countries differ in case only have been looked up:
\* one entry, one request
C6_Witness ==
    /\ pc = "done"
    /\ Len(items) = 2
    /\ CountryCode(items[1]) # CountryCode(items[2])
    /\ KeyOf(items[1]) = KeyOf(items[2])
    /\ DOMAIN cache = {KeyOf(items[1])}
    /\ requests[KeyOf(items[1])] = 1

\* the month count of the product does not convert to an int
MonthsNotInt(item) == IntOf(Get(item.ForecastMonths, PyInt(0))).exc # "none"

PriceParses(item) ==
    ParsePrice(Get(item.CurrentPrice, PyStr(<<"0">>)), CurrencyOf(item)).ok

\* C7: a visited product whose rate is known, whose price parses and whose
\* month count does not convert to an int is forecast with 0 months: its
\* record holds a series of one entry, the starting price rounded.
C7_BadMonthsForecastAsZero ==
    \A i \in 1..Len(items) :
        Visited(i) /\ RateKnown(items[i]) /\ PriceParses(items[i]) /\ MonthsNotInt(items[i])
        => /\ i <= Len(forecasts)
           /\ forecasts[i].PriceSeries =
                Series(<<Round2(ParsePrice(Get(items[i].CurrentPrice, PyStr(<<"0">>)),
                                           CurrencyOf(items[i])).number)>>)

\* the price of the product as _parse_price returns it
Parsed(item) ==
    ParsePrice(Get(item.CurrentPrice, PyStr(<<"0">>)), CurrencyOf(item))

\* the symbol known for a parsed price: the one the parser returns, else
\* the one of its code
SymbolOf(parsed) ==
    IF parsed.symbol # <<>> THEN parsed.symbol ELSE CurrencySymbol(parsed.code, <<>>)

\* C11: the 'Forecasted Price' of a record is 'Inflation data not found'
\* for a product without a rate and 'Invalid price format' for a product
\* with a rate whose price does not parse, both with a price series of None;
\* for a forecast product it is the symbol followed by the final price if a
\* symbol is known, else the final price, a space and the currency code of
\* the parsed price.
C11_DisplayString ==
    \A i \in 1..Len(forecasts) :
        /\ ~RateKnown(items[i])
           => /\ forecasts[i].ForecastedPrice = Sentinel("Inflation data not found")
              /\ forecasts[i].PriceSeries.none
        /\ RateKnown(items[i]) /\ ~PriceParses(items[i])
           => /\ forecasts[i].ForecastedPrice = Sentinel("Invalid price format")
              /\ forecasts[i].PriceSeries.none
        /\ RateKnown(items[i]) /\ PriceParses(items[i])
           => /\ forecasts[i].ForecastedPrice.text = "price"
              /\ ~forecasts[i].PriceSeries.none
              /\ forecasts[i].ForecastedPrice.final =
                    forecasts[i].PriceSeries.prices[Len(forecasts[i].PriceSeries.prices)]
              /\ forecasts[i].ForecastedPrice.symbol = SymbolOf(Parsed(items[i]))
              /\ forecasts[i].ForecastedPrice.code =
                    IF SymbolOf(Parsed(items[i])) # <<>> THEN <<>>
                    ELSE Parsed(items[i]).code

\* C14: the rate is looked up before the price is touched: a visited
\* product without a rate has the record 'Inflation data not found' whether
\* its price parses or not, and only a product with a rate whose price does
\* not parse has the record 'Invalid price format'.
C14_RateBeforePrice ==
    \A i \in 1..Len(items) :
        /\ Visited(i) /\ ~RateKnown(items[i])
           => /\ i <= Len(forecasts)
              /\ forecasts[i].ForecastedPrice = Sentinel("Inflation data not found")
              /\ forecasts[i].PriceSeries.none
        /\ i <= Len(forecasts) /\ forecasts[i].ForecastedPrice.text = "Invalid price format"
           => RateKnown(items[i]) /\ ~PriceParses(items[i])

\* a batch of a product without a rate whose price does not parse and of a
\* product with a rate whose price does not parse
C14_Witness ==
    /\ pc = "done"
    /\ Len(items) = 2
    /\ ~PriceParses(items[1]) /\ ~PriceParses(items[2])
    /\ forecasts[1].ForecastedPrice.text = "Inflation data not found"
    /\ forecasts[2].ForecastedPrice.text = "Invalid price format"

\* the month count of the product converts to a negative int
MonthsNegative(item) ==
    /\ ~MonthsNotInt(item)
    /\ IntOf(Get(item.ForecastMonths, PyInt(0))).n < 0

\* C15: the month count is clamped to a non-negative int before the
\* projector is called: a visited product with a rate, a price that parses
\* and a negative 'Forecast Months' is forecast, with a series that is not
\* empty.
C15_NegativeMonthsClamped ==
    \A i \in 1..Len(items) :
        Visited(i) /\ RateKnown(items[i]) /\ PriceParses(items[i]) /\ MonthsNegative(items[i])
        => /\ i <= Len(forecasts)
           /\ ~forecasts[i].PriceSeries.none
           /\ forecasts[i].PriceSeries.prices # <<>>

(***************************************************************************)
(* Properties of the resolver called directly (specification SpecResolver) *)
(***************************************************************************)
\* C3: of two calls in succession with the same non-empty country code, at
\* most one asks the data source and both return the same pair, whether
\* the first lookup found a rate or not; a call that finds its key in the
\* cache asks nothing.
C3_SecondCallAsksNothing ==
    /\ \A i \in 1..Len(calls) - 1 :
          calls[i].cc = calls[i + 1].cc /\ Truthy(calls[i].cc)
          => /\ calls[i].req + calls[i + 1].req <= 1
             /\ calls[i + 1].res = calls[i].res
    /\ \A i \in 1..Len(calls) : calls[i].hit => calls[i].req = 0

\* a lookup that found a rate, then the same call again
C3_Witness ==
    /\ Len(calls) >= 2
    /\ calls[1].cc = calls[2].cc
    /\ calls[1].req = 1 /\ ~calls[1].res.none
    /\ calls[2].hit

\* the answers with which the lookup fails: a transport error, a timeout, a
\* status that is not 2xx, a payload that is no list of at least 2
\* elements, a malformed series (the scan meets a malformed entry before a
\* value), and a series without a value
FailedAnswer(resp) ==
    \/ resp.kind \in {"transport", "timeout", "http", "badjson", "notlist", "short", "noniter"}
    \/ /\ resp.kind = "series"
       /\ \/ \A i \in 1..Len(resp.series) : resp.series[i].k = "null"
          \/ \E i \in 1..Len(resp.series) :
                /\ resp.series[i].k \in {"nodate", "notdict"}
                /\ \A j \in 1..(i - 1) : resp.series[j].k = "null"

\* C4: a call that asks the data source and whose lookup fails returns
\* (None, None) and stores (None, None) under the country's key, and every
\* later call for that key returns (None, None) without asking.
C4_FailureIsCached ==
    \A i \in 1..Len(calls) :
        calls[i].req = 1 /\ FailedAnswer(calls[i].resp)
        => /\ calls[i].res = NoRate
           /\ calls[i].wrote
           /\ CacheKey(calls[i].cc) \in DOMAIN cache
           /\ cache[CacheKey(calls[i].cc)] = NoRate
           /\ \A j \in (i + 1)..Len(calls) :
                 Truthy(calls[j].cc) /\ CacheKey(calls[j].cc) = CacheKey(calls[i].cc)
                 => calls[j].res = NoRate /\ calls[j].req = 0

\* a lookup that timed out, then a call for the same country spelled in
\* another case
C4_Witness ==
    /\ Len(calls) >= 2
    /\ calls[1].req = 1 /\ calls[1].resp.kind = "timeout"
    /\ calls[2].cc # calls[1].cc
    /\ Truthy(calls[2].cc) /\ CacheKey(calls[2].cc) = CacheKey(calls[1].cc)
    /\ calls[2].res = NoRate /\ calls[2].req = 0

\* C5: a call with an empty or a blank (whitespace only) country code
\* returns (None, None), asks nothing and leaves the cache as it is.
C5_BlankAsksNothing ==
    \A i \in 1..Len(calls) :
        Strip(calls[i].cc.s) = <<>>
        => calls[i].res = NoRate /\ calls[i].req = 0 /\ ~calls[i].wrote

(***************************************************************************)
(* The callbacks of main.py (specification SpecGui)                        *)
(***************************************************************************)
\* what the user types into a popup
GuiEntries ==
    { Entries(<<" ","T","e","a"," ">>, <<"$","3">>, <<>>, <<"u","s">>, <<"e","u","r">>),
      Entries(<<"R","i","c","e">>, <<"7">>, <<"6">>, <<"I","R">>, <<>>) }

\* the files the user picks in read_excel_action: sheets of one and of two
\* rows, and a sheet json cannot encode
GuiFiles ==
    { ExcelFile(TRUE, TRUE, TRUE,
        <<Product(PyStr(<<"A">>), PyStr(<<"$","1","0","0">>), PyInt(2),
                  PyStr(<<"U","S">>), PyStr(USD))>>),
      ExcelFile(TRUE, TRUE, FALSE,
        <<Product(PyStr(<<"B">>), PyNone, PyNone, PyNone, PyNone),
          Product(PyStr(<<"A">>), PyStr(<<"$","1","0","0">>), PyInt(2),
                  PyStr(<<"U","S">>), PyStr(USD))>>),
      ExcelFile(TRUE, TRUE, TRUE,
        <<Product(PyStr(<<"C">>), PyInt(7), PyDate, PyStr(<<"I","R">>), PyNone)>>) }

\* the edit popups there can be
GuiPopups == {Popup(iid, data) : iid \in 1..MaxItems, data \in 1..MaxItems}

\* _save_state: app_state.json holds the products, or the write raised and
\* the exception is passed over (lines 70-75)
SaveState(list, h, written, old) == IF written THEN Contents(list, h) ELSE old

\* confirm of add_product_popup: lines 191-203
AddConfirm(e, written) ==
    /\ Len(heap) < MaxItems /\ serial < MaxItems
    /\ heap' = Append(heap, FromEntries(e))
    /\ self_product_list' = Append(self_product_list, Len(heap) + 1)
    /\ serial' = serial + 1
    /\ table' = Append(table, serial + 1)
    /\ shown' = Inserted(shown, serial + 1, RowValues(FromEntries(e)))
    /\ appState' = SaveState(self_product_list', heap', written, appState)
    /\ UNCHANGED <<engine, reader, saver, popups>>

\* _edit_selected and _open_edit_popup for the selected row i: lines
\* 141-146 and 207-251.  The popup stays open until its save succeeds.
OpenEdit(i) ==
    /\ i \in 1..Len(table) /\ i <= Len(self_product_list)
    /\ popups' = popups \cup {Popup(table[i], self_product_list[i])}
    /\ UNCHANGED <<engine, reader, saver, self_product_list, heap, table, shown, serial, appState>>

\* save of the edit popup p: lines 238-249.  self.table.item(iid, ...)
\* raises TclError if the row is gone; the dict has been written by then,
\* and the lines after it are not run.
EditSave(p, e, written) ==
    /\ p \in popups
    /\ heap' = [heap EXCEPT ![p.data] = FromEntries(e)]
    /\ shown' = IF p.iid \in DOMAIN shown
                THEN [shown EXCEPT ![p.iid] = RowValues(FromEntries(e))] ELSE shown
    /\ appState' = IF p.iid \in DOMAIN shown
                   THEN SaveState(self_product_list, heap', written, appState) ELSE appState
    /\ popups' = IF p.iid \in DOMAIN shown THEN popups \ {p} ELSE popups
    /\ UNCHANGED <<engine, reader, saver, self_product_list, table, serial>>

\* _delete_selected for the selected row i, the user confirming (the
\* dialog is modal: no other callback runs while it is open): lines 148-158
DeleteSelected(i, written) ==
    /\ i \in 1..Len(table)
    /\ table' = Without(table, {table[i]})
    /\ shown' = Unshown(shown, table[i])
    /\ self_product_list' = IF i <= Len(self_product_list) THEN DelAt(self_product_list, i)
                       ELSE self_product_list
    /\ appState' = IF i <= Len(self_product_list)
                   THEN SaveState(self_product_list', heap, written, appState) ELSE appState
    /\ UNCHANGED <<engine, reader, saver, heap, serial, popups>>

\* read_excel_to_json_gui(file_path) succeeds for the file f
ReadSucceeds(f, outcome, old) ==
    f.exists /\ f.valid /\ ~Dumped(SheetData(f), outcome, old).exc

\* lines 276-282: the table and product_list after data.json is loaded
Loaded(data, written) ==
    /\ heap' = heap \o data
    /\ self_product_list' = [i \in 1..Len(data) |-> Len(heap) + i]
    /\ table' = [i \in 1..Len(data) |-> serial + i]
    /\ shown' = InsertedAll(data, serial)
    /\ serial' = serial + Len(data)
    /\ appState' = SaveState(self_product_list', heap', written, appState)
    /\ UNCHANGED popups

\* read_excel_action with the file f picked: lines 266-285.  readable:
\* data.json opens and parses at lines 274-275.
LoadExcel(f, outcome, readable, written) ==
    /\ rx.pc = "idle"
    /\ Len(heap) + Len(f.rows) <= MaxItems /\ serial + Len(f.rows) <= MaxItems
    /\ excel' = f
    /\ dataJson' = IF f.exists /\ f.valid THEN Dumped(SheetData(f), outcome, dataJson).json
                   ELSE dataJson
    /\ IF ReadSucceeds(f, outcome, dataJson) /\ readable
       THEN Loaded(SheetData(f), written)
       ELSE UNCHANGED gui
    /\ UNCHANGED <<engine, saver, rx>>

NextGui ==
    \/ \E e \in GuiEntries, written \in BOOLEAN : AddConfirm(e, written)
    \/ \E i \in 1..MaxItems : OpenEdit(i)
    \/ \E p \in GuiPopups, e \in GuiEntries, written \in BOOLEAN : EditSave(p, e, written)
    \/ \E i \in 1..MaxItems, written \in BOOLEAN : DeleteSelected(i, written)
    \/ \E f \in GuiFiles, outcome \in {"ok", "disk"}, readable \in BOOLEAN,
          written \in BOOLEAN : LoadExcel(f, outcome, readable, written)

SpecGui == Init /\ [][NextGui]_vars

(***************************************************************************)
(* Properties of the table of main.py (specification SpecGui)              *)
(***************************************************************************)
\* C17: whatever callbacks have run, in whatever order, edit popups left
\* open included, the table has one row per entry of product_list, in the
\* same order, and row i shows the five fields of product_list[i].
C17_TableMatchesList ==
    /\ Len(table) = Len(self_product_list)
    /\ DOMAIN shown = Range(table)
    /\ \A i \in 1..Len(table) :
          /\ i <= Len(self_product_list)
          /\ shown[table[i]] = RowValues(heap[self_product_list[i]])

\* an edit popup has been left open while its row was deleted, and its
\* save has then written the dict that is no longer in product_list
C17_Witness ==
    /\ \E p \in popups :
          /\ p.iid \notin DOMAIN shown
          /\ p.data \notin Range(self_product_list)
          /\ heap[p.data] = FromEntries(Entries(<<"R","i","c","e">>, <<"7">>, <<"6">>, <<"I","R">>, <<>>))
    /\ Len(table) >= 1
    /\ heap[self_product_list[1]] # FromEntries(Entries(<<"R","i","c","e">>, <<"7">>, <<"6">>, <<"I","R">>, <<>>))

(***************************************************************************)
(* Properties of save_to_excel (specification SpecSaver)                   *)
(***************************************************************************)
\* C13: save_to_excel returns True if it has written the workbook to
\* file_path and False otherwise: after a call that returns False the file
\* at file_path is no workbook that this call has put there, and a call
\* whose save of line 51 did not raise returns True.
C13_TrueIffSaved ==
    sx.pc = "return"
    => /\ sx.ok = "False" => ~(xlsx.state = "complete" /\ xlsx # sx.before)
       /\ sx.failed # "save" => sx.ok = "True"

(***************************************************************************)
(* Properties of read_excel_to_json_gui (specification SpecReader)         *)
(***************************************************************************)
\* C12: during a call the file at file_path changes only by the removal of
\* line 73, which happens only if delete_excel is true and data.json holds
\* all of data and is closed; a call whose load or whose write failed
\* returns False with the file as it found it, and every call returns
\* True or False.
C12_RemoveOnlyAfterJson ==
    /\ [][rx.pc # "idle" /\ excel' # excel
          => /\ rx.pc = "remove" /\ rx.delete_excel
             /\ dataJson = JsonFile("complete", SheetData(rx.file))]_vars
    /\ [](rx.pc = "return"
          => /\ rx.ok \in {"True", "False"}
             /\ rx.failed # "none" => rx.ok = "False"
             /\ rx.failed \in {"load", "write"} => excel = rx.file
             /\ ~rx.delete_excel => excel = rx.file)

\* a call with delete_excel has written the rows of the sheet to data.json
\* and removed the file
C12_Witness ==
    /\ rx.pc = "return" /\ rx.ok = "True" /\ rx.delete_excel
    /\ rx.file.exists /\ Len(rx.file.rows) = MaxRows
    /\ ~excel.exists
    /\ dataJson = JsonFile("complete", SheetData(rx.file))

(***************************************************************************)
(* Properties of the pure functions (specification SpecPure)               *)
(***************************************************************************)
\* the month count the argument of forecast_price denotes, if it is one
IsCount(months) ==
    months.t = "int" \/ months = PyStr(<<" ","6"," ">>)

CountOf(months) == IF months.t = "int" THEN months.n ELSE 6

\* the call has returned a forecast
Forecast == call.fn = "forecast_price" /\ ret.exc = "none" /\ ret.ok

\* C8: a forecast for a month count months >= 0 has a series of months + 1
\* entries, whose entry 0 is the starting amount rounded to 2 decimals and
\* whose last entry, series[months], is the final price returned.
C8_SeriesShape ==
    Forecast /\ IsCount(call.months) /\ CountOf(call.months) >= 0
    => /\ Len(ret.prices) = CountOf(call.months) + 1
       /\ \E f \in PriceForms :
             /\ call.current_price = PyStr(TextOf(f))
             /\ ret.prices[1] = Round2(f.num.val)
       /\ ret.final = ret.prices[CountOf(call.months) + 1]

\* a forecast over MaxMonths months whose final price is not the starting one
C8_Witness ==
    /\ Forecast
    /\ call.months = PyInt(MaxMonths)
    /\ Len(ret.prices) = MaxMonths + 1
    /\ ret.final # ret.prices[1]

\* the call has returned a series
Projected ==
    call.fn = "_project_price_over_months" /\ ret.exc = "none" /\ ~ret.none

Rate == call.annual_inflation_pct.v

Steps == 1..(Len(ret.prices) - 1)

Constant == \A i \in 1..Len(ret.prices) : ret.prices[i] = Round2(call.start_price)

\* C9 as stated: the series rises strictly from month to month if the rate
\* is > 0, falls strictly if it is < 0, and is constant at the starting
\* amount rounded to 2 decimals if the rate is 0, for every starting amount
\* and month count.
C9_StrictlyMonotonic ==
    Projected
    => /\ Rate > 0 => \A i \in Steps : ret.prices[i] < ret.prices[i + 1]
       /\ Rate < 0 => \A i \in Steps : ret.prices[i] > ret.prices[i + 1]
       /\ Rate = 0 => Constant

\* C9 amended: the series is constant at the rounded starting amount if the
\* rate is 0; for a starting amount >= 0 it never falls if the rate is > 0
\* and never rises if the rate is < 0; for a starting amount <= 0 it is the
\* other way round.  (Rates below -100 return no series.)
C9_WeaklyMonotonic ==
    Projected
    => /\ Rate = 0 => Constant
       /\ (Rate > 0 /\ call.start_price >= 0) \/ (Rate < 0 /\ call.start_price <= 0)
          => \A i \in Steps : ret.prices[i] <= ret.prices[i + 1]
       /\ (Rate < 0 /\ call.start_price >= 0) \/ (Rate > 0 /\ call.start_price <= 0)
          => \A i \in Steps : ret.prices[i] >= ret.prices[i + 1]

\* a series at a rate > 0 that stays where it is for a month and rises later
C9_Witness ==
    /\ Projected
    /\ Rate > 0
    /\ call.start_price > 0
    /\ Len(ret.prices) >= 3
    /\ ret.prices[1] = ret.prices[2]
    /\ ret.prices[1] < ret.prices[Len(ret.prices)]

\* C10: the code of a parsed price is the leading code if the text has one,
\* else the trailing code if it has one, else the default, in upper case,
\* and its number is the value of the numeral, commas ignored.
C10_CodePrecedence ==
    call.fn = "_parse_price"
    => \A f \in PriceForms :
          call.price_str = PyStr(TextOf(f))
          => /\ ret.ok
             /\ ret.number = f.num.val
             /\ ret.code = Upper(IF f.lead # <<>> THEN f.lead
                                 ELSE IF f.trail # <<>> THEN f.trail
                                 ELSE call.default_currency)

\* a text with a leading and a trailing code has been parsed
C10_Witness ==
    /\ call.fn = "_parse_price"
    /\ call.price_str = PyStr(<<"e","u","r"," ","1",",","2","3","4",".","5","6","J","P","Y">>)
    /\ ret.ok
    /\ ret.code = EUR

\* the text _parse_price searches: lines 128-129
Searched(price_str) == NbspToSpace(Strip(price_str.s))

\* the text without the characters other than digits, dot and minus
Cleaned(s) == Without(s, Range(s) \ (Range(DigitChars) \cup {".", "-"}))

\* what the fallback returns for the text s
FallbackOf(s, default_currency) ==
    IF Float(Cleaned(s)).ok
    THEN Money(Float(Cleaned(s)).v, CurrencySymbol(default_currency, <<>>), default_currency)
    ELSE ParseFailure

\* the pattern matches in s and its numeric token, commas removed, is no float
TokenNoFloat(s) ==
    PatternSearch(s).ok /\ ~Float(Without(PatternSearch(s).gnum, {","})).ok

\* C16: _parse_price returns what the fallback returns both when the
\* pattern does not match and when it matches and its numeric token does
\* not convert: the number of the text stripped of every character other
\* than digits, dot and minus with the default currency's code and symbol,
\* failure if the stripped text does not convert; 'abc-5abc' with the
\* default 'USD' is -5 by the fallback.
C16_FallbackOnBadToken ==
    call.fn = "_parse_price" /\ call.price_str.t = "str"
    => /\ ~PatternSearch(Searched(call.price_str)).ok \/ TokenNoFloat(Searched(call.price_str))
          => ret = FallbackOf(Searched(call.price_str), call.default_currency)
       /\ call.price_str = PyStr(<<"a","b","c","-","5","a","b","c">>)
          /\ call.default_currency = USD
          => ret = FallbackOf(Searched(call.price_str), call.default_currency)

====
